---------------------------- MODULE Spec2Model ----------------------------
(***************************************************************************)
(* A model of RsaKey (rsa_key.cpp): the static factories GenerateKey and   *)
(* ImportKey, and CreateOperation with the two SupportedMode overloads.    *)
(*                                                                         *)
(* The model follows one Key Entity.  The caller's key description and the *)
(* width of the provider's BN_ULONG are fixed by Init; the factories share *)
(* no state, so one entity at a time loses nothing.                        *)
(*                                                                         *)
(* Numbers that do not fit a 31-bit integer (uint64_t exponents, BIGNUMs)  *)
(* are kept as little-endian sequences of 16-bit limbs without leading     *)
(* zero limbs: 3 is <<3>>, 65537 is <<1, 1>>, 0xffffffff is                *)
(* <<65535, 65535>>, 2^64 + 1 is <<1, 0, 0, 0, 1>>.                        *)
(***************************************************************************)
EXTENDS Integers, Sequences, FiniteSets, TLC

VARIABLES
    BN_BITS2,         \* width in bits of the provider's BN_ULONG on this build
    key_description,  \* the caller's AuthorizationSet
    key,              \* the Key Entity: authorizations() and rsa_key_
    ops,              \* the Operation objects constructed so far
    leaked,           \* RSA handles released from their owner and held by nothing
    result            \* the last call: its arguments, *error and the returned pointer

vars == <<BN_BITS2, key_description, key, ops, leaked, result>>

\* Number of CreateOperation calls that return an operation.
MaxOps == 2

----------------------------------------------------------------------------
(* Limb arithmetic *)

LimbBase == 2 ^ 16
LimbMax == LimbBase - 1

RECURSIVE ToLimbs(_)
ToLimbs(n) == IF n = 0 THEN <<>>
              ELSE <<n % LimbBase>> \o ToLimbs(n \div LimbBase)

RECURSIVE Normalize(_)
Normalize(s) == IF s = <<>> THEN <<>>
                ELSE IF s[Len(s)] = 0 THEN Normalize(SubSeq(s, 1, Len(s) - 1))
                ELSE s

Mask(limbs) == [i \in 1..limbs |-> LimbMax]

\* Limbs in a BN_ULONG (16 bits each).
WordLimbs == BN_BITS2 \div 16

\* Conversion of a uint64_t to BN_ULONG: the low BN_BITS2 bits.
ToBnUlong(v) ==
    Normalize(SubSeq(v, 1, IF Len(v) < WordLimbs THEN Len(v) ELSE WordLimbs))

\* BN_set_word(bn, w): bn becomes the BN_ULONG w.
BN_set_word(w) == ToBnUlong(w)

\* BN_get_word(bn): bn when it fits a BN_ULONG, all ones (BN_MASK2) otherwise.
BN_get_word(bn) == IF Len(bn) > WordLimbs THEN Mask(WordLimbs) ELSE bn

\* The literal 0xffffffffL.
Sentinel32 == <<LimbMax, LimbMax>>

----------------------------------------------------------------------------
(* Program constants *)

RSA_DEFAULT_KEY_SIZE == 2048
RSA_DEFAULT_EXPONENT == 65537

\* static_cast<keymaster_padding_t>(-1), static_cast<keymaster_digest_t>(-1)
UnsetEnum == "-1"

NullRsa == [size |-> 0, e |-> <<>>]

----------------------------------------------------------------------------
(* AuthorizationSet *)

Authorization(tag, value) == [tag |-> tag, value |-> value]

Contains(set, tag) == \E i \in 1..Len(set) : set[i].tag = tag

FirstIndex(set, tag) ==
    CHOOSE i \in 1..Len(set) :
        /\ set[i].tag = tag
        /\ \A j \in 1..(i - 1) : set[j].tag # tag

\* GetTagValue(tag, &val): returns whether the tag is present; val is written
\* with the first match and left at its previous value otherwise.
GetTagValue(set, tag, val) ==
    IF Contains(set, tag) THEN set[FirstIndex(set, tag)].value ELSE val

push_back(set, tag, value) == Append(set, Authorization(tag, value))

----------------------------------------------------------------------------
(* Inputs *)

Opt(tag, values) == {<<>>} \cup {<<Authorization(tag, v)>> : v \in values}

Algorithms == {"KM_ALGORITHM_RSA", "KM_ALGORITHM_ECDSA"}
KeySizes == {128, 1024}
Exponents == {ToLimbs(3), ToLimbs(3) \o <<0, 1>>}
Paddings == {"KM_PAD_NONE", "KM_PAD_RSA_OAEP", "KM_PAD_RSA_PKCS1_1_5_ENCRYPT",
             "KM_PAD_RSA_PKCS1_1_5_SIGN"}
Digests == {"KM_DIGEST_NONE", "KM_DIGEST_SHA_2_256"}

Descriptions ==
    {a \o s \o e \o p \o d :
        a \in Opt("TAG_ALGORITHM", Algorithms),
        s \in Opt("TAG_KEY_SIZE", KeySizes),
        e \in Opt("TAG_RSA_PUBLIC_EXPONENT", Exponents),
        p \in Opt("TAG_PADDING", Paddings),
        d \in Opt("TAG_DIGEST", Digests)}

\* RSA keys an EVP_PKEY may hold: RSA_size() in bytes and the exponent e.
MaterialExponents == {ToLimbs(3), Sentinel32, <<1, 0, 0, 0, 1>>}
Materials == [size : {128}, e : MaterialExponents]

ValidPurposes == {"KM_PURPOSE_ENCRYPT", "KM_PURPOSE_DECRYPT",
                  "KM_PURPOSE_SIGN", "KM_PURPOSE_VERIFY"}
Purposes == ValidPurposes \cup {"KM_PURPOSE_INVALID"}

\* A new-expression: the object is allocated, or the allocation function
\* returns null and the constructor's arguments (a release() among them) are
\* evaluated or not, which the language leaves unspecified.
NewOutcomes == {"allocated", "null_args_evaluated", "null_args_skipped"}

\* The provider call that fails during a GenerateKey, if any.
ProviderOutcomes == {"ok", "RSA_new", "BN_set_word", "RSA_generate_key_ex"}

NoKey == [exists |-> FALSE, authorizations |-> <<>>, rsa_key_ |-> NullRsa]

\* purpose and pkey are the call's arguments (CreateOperation's and ImportKey's).
NoResult == [call |-> "none", purpose |-> "none", pkey |-> NullRsa,
             error |-> "none", ret |-> "NULL"]

Result(call, purpose, pkey, error, ret) ==
    [call |-> call, purpose |-> purpose, pkey |-> pkey, error |-> error, ret |-> ret]

----------------------------------------------------------------------------
Init ==
    /\ BN_BITS2 \in {32, 64}
    /\ key_description \in Descriptions
    /\ key = NoKey
    /\ ops = <<>>
    /\ leaked = {}
    /\ result = NoResult

----------------------------------------------------------------------------
(* RsaKey::GenerateKey *)

\* Mutants of GenerateAuthorizations: one appends both defaults whether or not
\* the tag is declared, the other forgets the key size default.
GenerateAuthorizations_AlwaysAppend(description) ==
    push_back(push_back(description, "TAG_RSA_PUBLIC_EXPONENT",
                        ToLimbs(RSA_DEFAULT_EXPONENT)),
              "TAG_KEY_SIZE", RSA_DEFAULT_KEY_SIZE)

GenerateAuthorizations_NoKeySize(description) ==
    IF ~Contains(description, "TAG_RSA_PUBLIC_EXPONENT")
    THEN push_back(description, "TAG_RSA_PUBLIC_EXPONENT", ToLimbs(RSA_DEFAULT_EXPONENT))
    ELSE description

\* The copy of the key description with the defaults appended.
GenerateAuthorizations(description) ==
    LET a1 == IF ~Contains(description, "TAG_RSA_PUBLIC_EXPONENT")
              THEN push_back(description, "TAG_RSA_PUBLIC_EXPONENT",
                             ToLimbs(RSA_DEFAULT_EXPONENT))
              ELSE description
    IN  IF ~Contains(a1, "TAG_KEY_SIZE")
        THEN push_back(a1, "TAG_KEY_SIZE", RSA_DEFAULT_KEY_SIZE)
        ELSE a1

\* RSA_generate_key_ex(rsa, bits, e): a key of that many bits with exponent e.
RSA_generate_key_ex(bits, e) == [size |-> (bits + 7) \div 8, e |-> e]

\* One call: what it stores in *error, what it returns, the entity it
\* constructs and the handle it loses, for each outcome of the provider calls
\* and of the new-expression.
GenerateKeyCall(description, has_error, provider, alloc) ==
    LET authorizations == GenerateAuthorizations(description)
        public_exponent == GetTagValue(authorizations, "TAG_RSA_PUBLIC_EXPONENT",
                                       ToLimbs(RSA_DEFAULT_EXPONENT))
        key_size == GetTagValue(authorizations, "TAG_KEY_SIZE", RSA_DEFAULT_KEY_SIZE)
        rsa_key == RSA_generate_key_ex(key_size, BN_set_word(public_exponent))
    IN  IF ~has_error
        THEN [error |-> "no slot", ret |-> "NULL", key |-> NoKey, lost |-> {}]
        ELSE IF provider = "RSA_new"
        THEN [error |-> "KM_ERROR_MEMORY_ALLOCATION_FAILED", ret |-> "NULL",
              key |-> NoKey, lost |-> {}]
        ELSE IF provider \in {"BN_set_word", "RSA_generate_key_ex"}
        THEN [error |-> "KM_ERROR_UNKNOWN_ERROR", ret |-> "NULL",
              key |-> NoKey, lost |-> {}]
        ELSE IF alloc = "allocated"
        THEN [error |-> "KM_ERROR_OK", ret |-> "RsaKey",
              key |-> [exists |-> TRUE, authorizations |-> authorizations,
                       rsa_key_ |-> rsa_key],
              lost |-> {}]
        ELSE [error |-> "KM_ERROR_MEMORY_ALLOCATION_FAILED", ret |-> "NULL",
              key |-> NoKey,
              lost |-> IF alloc = "null_args_evaluated" THEN {rsa_key} ELSE {}]

GenerateKey ==
    /\ ~key.exists
    /\ \E has_error \in BOOLEAN, provider \in ProviderOutcomes, alloc \in NewOutcomes :
          LET r == GenerateKeyCall(key_description, has_error, provider, alloc)
          IN  /\ key' = r.key
              /\ leaked' = leaked \cup r.lost
              /\ result' = Result("GenerateKey", "none", NullRsa, r.error, r.ret)
    /\ UNCHANGED <<BN_BITS2, key_description, ops>>

----------------------------------------------------------------------------
(* RsaKey::ImportKey *)

\* The reconciliation of the description with the key: the error it stops
\* with (KM_ERROR_OK when it reaches the end) and the authorizations then.
ImportValidate(description, rsa_key, bn_ok) ==
    LET declares_e == Contains(description, "TAG_RSA_PUBLIC_EXPONENT")
        declared_e == GetTagValue(description, "TAG_RSA_PUBLIC_EXPONENT", <<>>)
        from_key == BN_get_word(rsa_key.e)
        a1 == IF declares_e THEN description
              ELSE push_back(description, "TAG_RSA_PUBLIC_EXPONENT", from_key)
        declares_size == Contains(a1, "TAG_KEY_SIZE")
        declared_size == GetTagValue(a1, "TAG_KEY_SIZE", 0)
        a2 == IF declares_size THEN a1
              ELSE push_back(a1, "TAG_KEY_SIZE", rsa_key.size * 8)
        declares_alg == Contains(a2, "TAG_ALGORITHM")
        declared_alg == GetTagValue(a2, "TAG_ALGORITHM", "none")
        a3 == IF declares_alg THEN a2
              ELSE push_back(a2, "TAG_ALGORITHM", "KM_ALGORITHM_RSA")
    IN  IF declares_e /\ ~bn_ok
        THEN [error |-> "KM_ERROR_UNKNOWN_ERROR", authorizations |-> description]
        ELSE IF declares_e /\ BN_set_word(declared_e) # rsa_key.e
        THEN [error |-> "KM_ERROR_IMPORT_PARAMETER_MISMATCH",
              authorizations |-> description]
        ELSE IF ~declares_e /\ from_key = Sentinel32
        THEN [error |-> "KM_ERROR_IMPORT_PARAMETER_MISMATCH",
              authorizations |-> description]
        ELSE IF declares_size /\ rsa_key.size # declared_size
        THEN [error |-> "KM_ERROR_IMPORT_PARAMETER_MISMATCH", authorizations |-> a1]
        ELSE IF declares_alg /\ declared_alg # "KM_ALGORITHM_RSA"
        THEN [error |-> "KM_ERROR_IMPORT_PARAMETER_MISMATCH", authorizations |-> a2]
        ELSE [error |-> "KM_ERROR_OK", authorizations |-> a3]

ImportKeyCall(description, evp, has_error, bn_ok, alloc) ==
    LET v == ImportValidate(description, evp, bn_ok)
    IN  IF ~has_error
        THEN [error |-> "no slot", ret |-> "NULL", key |-> NoKey, lost |-> {}]
        ELSE IF evp = NullRsa
        THEN [error |-> "KM_ERROR_UNKNOWN_ERROR", ret |-> "NULL",
              key |-> NoKey, lost |-> {}]
        ELSE IF v.error # "KM_ERROR_OK"
        THEN [error |-> v.error, ret |-> "NULL", key |-> NoKey, lost |-> {}]
        ELSE IF alloc = "allocated"
        THEN [error |-> "KM_ERROR_OK", ret |-> "RsaKey",
              key |-> [exists |-> TRUE, authorizations |-> v.authorizations,
                       rsa_key_ |-> evp],
              lost |-> {}]
        ELSE [error |-> "KM_ERROR_OK", ret |-> "NULL", key |-> NoKey,
              lost |-> IF alloc = "null_args_evaluated" THEN {evp} ELSE {}]

ImportKey ==
    /\ ~key.exists
    /\ \E pkey \in Materials \cup {NullRsa}, has_error \in BOOLEAN,
          bn_ok \in BOOLEAN, alloc \in NewOutcomes :
          LET r == ImportKeyCall(key_description, pkey, has_error, bn_ok, alloc)
          IN  /\ key' = r.key
              /\ leaked' = leaked \cup r.lost
              /\ result' = Result("ImportKey", "none", pkey, r.error, r.ret)
    /\ UNCHANGED <<BN_BITS2, key_description, ops>>

----------------------------------------------------------------------------
(* RsaKey::SupportedMode, RsaKey::CreateOperation *)

SupportedModePadding(purpose, padding) ==
    IF purpose \in {"KM_PURPOSE_SIGN", "KM_PURPOSE_VERIFY"}
    THEN padding = "KM_PAD_NONE"
    ELSE IF purpose \in {"KM_PURPOSE_ENCRYPT", "KM_PURPOSE_DECRYPT"}
    THEN padding = "KM_PAD_RSA_OAEP" \/ padding = "KM_PAD_RSA_PKCS1_1_5_ENCRYPT"
    ELSE FALSE

\* Mutant of SupportedModeDigest: the digest is constrained for every purpose.
SupportedModeDigest_AllPurposes(purpose, digest) == digest = "KM_DIGEST_NONE"

SupportedModeDigest(purpose, digest) ==
    IF purpose \in {"KM_PURPOSE_SIGN", "KM_PURPOSE_VERIFY"}
    THEN digest = "KM_DIGEST_NONE"
    ELSE TRUE

\* The operation object the switch constructs around the released handle.
NewOperation(purpose, digest, padding, rsa_key) ==
    CASE purpose = "KM_PURPOSE_SIGN" ->
            [type |-> "RsaSignOperation", digest |-> digest, padding |-> padding,
             rsa_key |-> rsa_key]
      [] purpose = "KM_PURPOSE_VERIFY" ->
            [type |-> "RsaVerifyOperation", digest |-> digest, padding |-> padding,
             rsa_key |-> rsa_key]
      [] purpose = "KM_PURPOSE_ENCRYPT" ->
            [type |-> "RsaEncryptOperation", digest |-> "not passed",
             padding |-> padding, rsa_key |-> rsa_key]
      [] purpose = "KM_PURPOSE_DECRYPT" ->
            [type |-> "RsaDecryptOperation", digest |-> "not passed",
             padding |-> padding, rsa_key |-> rsa_key]

\* One call on the entity k: *error, the returned operation (as a sequence of
\* zero or one), the entity's rsa_key_ afterwards and the handle it loses.
CreateOperationCall(k, purpose, alloc) ==
    LET padding == GetTagValue(k.authorizations, "TAG_PADDING", UnsetEnum)
        digest == GetTagValue(k.authorizations, "TAG_DIGEST", UnsetEnum)
        released == k.rsa_key_
    IN  IF ~SupportedModePadding(purpose, padding)
        THEN [error |-> "KM_ERROR_UNSUPPORTED_PADDING_MODE", op |-> <<>>,
              rsa_key_ |-> k.rsa_key_, lost |-> {}]
        ELSE IF ~SupportedModeDigest(purpose, digest)
        THEN [error |-> "KM_ERROR_UNSUPPORTED_DIGEST", op |-> <<>>,
              rsa_key_ |-> k.rsa_key_, lost |-> {}]
        ELSE IF purpose \notin ValidPurposes
        THEN [error |-> "KM_ERROR_UNSUPPORTED_PURPOSE", op |-> <<>>,
              rsa_key_ |-> k.rsa_key_, lost |-> {}]
        ELSE IF alloc = "allocated"
        THEN [error |-> "KM_ERROR_OK",
              op |-> <<NewOperation(purpose, digest, padding, released)>>,
              rsa_key_ |-> NullRsa, lost |-> {}]
        ELSE IF alloc = "null_args_evaluated"
        THEN [error |-> "KM_ERROR_MEMORY_ALLOCATION_FAILED", op |-> <<>>,
              rsa_key_ |-> NullRsa, lost |-> {released} \ {NullRsa}]
        ELSE [error |-> "KM_ERROR_MEMORY_ALLOCATION_FAILED", op |-> <<>>,
              rsa_key_ |-> k.rsa_key_, lost |-> {}]

CreateOperation ==
    /\ key.exists
    /\ Len(ops) < MaxOps
    /\ \E purpose \in Purposes, alloc \in NewOutcomes :
          LET r == CreateOperationCall(key, purpose, alloc)
          IN  /\ key' = [key EXCEPT !.rsa_key_ = r.rsa_key_]
              /\ ops' = ops \o r.op
              /\ leaked' = leaked \cup r.lost
              /\ result' = Result("CreateOperation", purpose, NullRsa, r.error,
                                  IF r.op = <<>> THEN "NULL" ELSE r.op[1].type)
    /\ UNCHANGED <<BN_BITS2, key_description>>

----------------------------------------------------------------------------
Next == GenerateKey \/ ImportKey \/ CreateOperation

Spec == Init /\ [][Next]_vars

----------------------------------------------------------------------------
(* Properties *)

Declares(tag) == Contains(key_description, tag)
Declared(tag) == GetTagValue(key_description, tag, "none")

Padding == GetTagValue(key.authorizations, "TAG_PADDING", UnsetEnum)
Digest == GetTagValue(key.authorizations, "TAG_DIGEST", UnsetEnum)

Created == result.call = "CreateOperation"
\* An ImportKey call given an error slot and an EVP_PKEY holding an RSA key,
\* in which no provider call failed.
Imported == /\ result.call = "ImportKey"
            /\ result.pkey # NullRsa
            /\ result.error \notin {"no slot", "KM_ERROR_UNKNOWN_ERROR"}
Generated == result.call = "GenerateKey" /\ result.error # "no slot"

\* The mode matrix of the specification, padding first.
ModeMatrix(purpose, padding, digest) ==
    IF purpose \in {"KM_PURPOSE_SIGN", "KM_PURPOSE_VERIFY"}
    THEN IF padding # "KM_PAD_NONE" THEN "KM_ERROR_UNSUPPORTED_PADDING_MODE"
         ELSE IF digest # "KM_DIGEST_NONE" THEN "KM_ERROR_UNSUPPORTED_DIGEST"
         ELSE "KM_ERROR_OK"
    ELSE IF padding \notin {"KM_PAD_RSA_OAEP", "KM_PAD_RSA_PKCS1_1_5_ENCRYPT"}
         THEN "KM_ERROR_UNSUPPORTED_PADDING_MODE"
         ELSE "KM_ERROR_OK"

\* C1: CreateOperation with a purpose outside {Sign, Verify, Encrypt, Decrypt}
\* reports UnsupportedPurpose and returns no operation.
C1_InvalidPurposeIsUnsupportedPurpose ==
    (Created /\ result.purpose \notin ValidPurposes)
        => (result.error = "KM_ERROR_UNSUPPORTED_PURPOSE" /\ result.ret = "NULL")

\* C2: ImportKey compares a declared KeySize with the size of the key in bits
\* (8 x RSA_size): a different size is ImportParameterMismatch with no Key
\* Entity, an equal one (exponent and algorithm reconciling) imports with Ok;
\* an undeclared KeySize is appended as the size in bits.
C2_ImportKeySizeIsInBits ==
    Imported =>
        LET bits == 8 * result.pkey.size
            e_ok == Declares("TAG_RSA_PUBLIC_EXPONENT")
                        => Declared("TAG_RSA_PUBLIC_EXPONENT") = result.pkey.e
            alg_ok == Declares("TAG_ALGORITHM")
                        => Declared("TAG_ALGORITHM") = "KM_ALGORITHM_RSA"
        IN  /\ (Declares("TAG_KEY_SIZE") /\ Declared("TAG_KEY_SIZE") # bits)
                => (result.error = "KM_ERROR_IMPORT_PARAMETER_MISMATCH"
                    /\ result.ret = "NULL")
            /\ (Declares("TAG_KEY_SIZE") /\ Declared("TAG_KEY_SIZE") = bits
                    /\ e_ok /\ alg_ok)
                => result.error = "KM_ERROR_OK"
            /\ (~Declares("TAG_KEY_SIZE") /\ key.exists)
                => GetTagValue(key.authorizations, "TAG_KEY_SIZE", 0) = bits

\* C3 as stated: every Key Entity returned by GenerateKey or ImportKey has
\* Algorithm, KeySize and PublicExponent in its AuthorizationSet.
C3_EveryKeyHasAlgorithmSizeExponent ==
    key.exists =>
        /\ Contains(key.authorizations, "TAG_ALGORITHM")
        /\ Contains(key.authorizations, "TAG_KEY_SIZE")
        /\ Contains(key.authorizations, "TAG_RSA_PUBLIC_EXPONENT")

\* C3 as amended: every Key Entity returned by GenerateKey or ImportKey has
\* KeySize and PublicExponent in its AuthorizationSet; one returned by ImportKey
\* also has Algorithm; one returned by GenerateKey has Algorithm exactly when
\* the caller's key description declares it.
C3_KeyHasSizeExponentAndImportedAlgorithm ==
    key.exists =>
        /\ Contains(key.authorizations, "TAG_KEY_SIZE")
        /\ Contains(key.authorizations, "TAG_RSA_PUBLIC_EXPONENT")
        /\ Imported => Contains(key.authorizations, "TAG_ALGORITHM")
        /\ Generated => (Contains(key.authorizations, "TAG_ALGORITHM")
                            <=> Declares("TAG_ALGORITHM"))
        /\ Declares("TAG_ALGORITHM") => Contains(key.authorizations, "TAG_ALGORITHM")

C3_Witness ==
    /\ key.exists
    /\ Generated
    /\ key_description = <<>>
    /\ ~Contains(key.authorizations, "TAG_ALGORITHM")
    /\ Contains(key.authorizations, "TAG_KEY_SIZE")

\* C4: whenever CreateOperation fails, allocation failure of the operation
\* object included, no operation is returned and the Key Entity still owns the
\* key material it owned before the call.
C4_FailedCreateOperationKeepsMaterial ==
    [][(CreateOperation /\ result'.error # "KM_ERROR_OK")
          => (result'.ret = "NULL" /\ ops' = ops /\ key' = key)]_vars

\* C5 as stated: for the four purposes CreateOperation's error code is the
\* mode matrix evaluated padding first, an unset padding or digest counting as
\* a value that is not permitted.
C5_ErrorIsModeMatrix ==
    (Created /\ result.purpose \in ValidPurposes)
        => result.error = ModeMatrix(result.purpose, Padding, Digest)

\* C5 as amended: for the four purposes CreateOperation's error code is the
\* mode matrix evaluated padding first, except that where the matrix gives Ok
\* the code is Ok when the operation object is allocated and
\* MemoryAllocationFailed, with no operation returned, when it is not.
C5_ErrorIsModeMatrixOrAllocationFailure ==
    (Created /\ result.purpose \in ValidPurposes)
        => LET m == ModeMatrix(result.purpose, Padding, Digest)
           IN  IF m # "KM_ERROR_OK" THEN result.error = m
               ELSE \/ result.error = "KM_ERROR_OK" /\ result.ret # "NULL"
                    \/ result.error = "KM_ERROR_MEMORY_ALLOCATION_FAILED"
                       /\ result.ret = "NULL"

C5_Witness ==
    /\ Created
    /\ result.purpose = "KM_PURPOSE_ENCRYPT"
    /\ Padding = "KM_PAD_RSA_OAEP"
    /\ Digest = "KM_DIGEST_SHA_2_256"
    /\ result.error = "KM_ERROR_OK"
    /\ result.ret = "RsaEncryptOperation"

\* C6: a key's material has exactly one owner: the Key Entity until a
\* CreateOperation succeeds, and from then on exactly one Operation, the Key
\* Entity's slot being empty.
C6_MaterialHasOneOwner ==
    key.exists =>
        IF ops = <<>>
        THEN key.rsa_key_ # NullRsa
        ELSE /\ key.rsa_key_ = NullRsa
             /\ Cardinality({i \in 1..Len(ops) : ops[i].rsa_key # NullRsa}) = 1

\* C7: ImportKey with a declared PublicExponent different from the key's
\* exponent reports ImportParameterMismatch and produces no Key Entity; with
\* PublicExponent omitted the Key Entity it produces carries the key's true
\* exponent.
C7_ImportReconcilesExponent ==
    Imported =>
        /\ (Declares("TAG_RSA_PUBLIC_EXPONENT")
                /\ Declared("TAG_RSA_PUBLIC_EXPONENT") # result.pkey.e)
            => (result.error = "KM_ERROR_IMPORT_PARAMETER_MISMATCH"
                /\ result.ret = "NULL" /\ ~key.exists)
        /\ (~Declares("TAG_RSA_PUBLIC_EXPONENT") /\ key.exists)
            => GetTagValue(key.authorizations, "TAG_RSA_PUBLIC_EXPONENT", <<>>)
                   = result.pkey.e

\* C8: GenerateKey appends PublicExponent = 65537 and KeySize = 2048 to the
\* copy of the key description exactly when the tag is absent, leaves what is
\* declared untouched, and resolving the defaults of the resolved set again
\* appends nothing.
C8_DefaultsAppendedOnceWhenAbsent ==
    (Generated /\ key.exists) =>
        /\ key.authorizations =
              key_description
              \o (IF Declares("TAG_RSA_PUBLIC_EXPONENT") THEN <<>>
                  ELSE <<Authorization("TAG_RSA_PUBLIC_EXPONENT", <<1, 1>>)>>)
              \o (IF Declares("TAG_KEY_SIZE") THEN <<>>
                  ELSE <<Authorization("TAG_KEY_SIZE", 2048)>>)
        /\ GenerateAuthorizations(key.authorizations) = key.authorizations

C8_Witness ==
    /\ Generated
    /\ key.exists
    /\ Declares("TAG_KEY_SIZE")
    /\ ~Declares("TAG_RSA_PUBLIC_EXPONENT")
    /\ Len(key.authorizations) = Len(key_description) + 1

\* C9: GenerateKey, ImportKey and CreateOperation, given an error slot, return
\* an object exactly when the error code they report is Ok.
C9_ObjectIffOk ==
    (result.call # "none" /\ result.error # "no slot")
        => (result.ret # "NULL" <=> result.error = "KM_ERROR_OK")

\* C10: every operation CreateOperation returns with Ok owns key material,
\* also when an earlier CreateOperation on the Key Entity succeeded.
C10_ReturnedOperationOwnsMaterial ==
    \A i \in 1..Len(ops) : ops[i].rsa_key # NullRsa

============================================================================
